---- MODULE Spec2Model ----
(***************************************************************************)
(* create-next2d-app (src/src/index.ts): the synchronous preflight of      *)
(* createApp followed by the installation pipeline of install, a chain of  *)
(* close handlers and promise callbacks around four npm child processes.   *)
(* The package manager is the environment: a spawned child runs, leaves    *)
(* its effect on the disk and reports an exit status.                      *)
(***************************************************************************)
EXTENDS Integers, Sequences, FiniteSets, TLC

\* ------------------------------------------------------------------ bounds
\* exit statuses a child process may report: 0..MaxExitCode
MaxExitCode == 2
\* largest number of entries of a template descriptor, both mappings together
MaxTemplateEntries == 2
\* largest number of lines of the `npm config list` output
MaxConfigLines == 2

\* --------------------------------------------------------------- constants
command == "npm"

Wildcard == "*"

DefaultTemplate == "@next2d/framework-template"

\* variant: the list without its last name
ReservedNamesShort == {"next2d", "next2d-player"}

\* the names checkAppName refuses as dependencies of the generated project
ReservedNames == {"next2d", "next2d-player", "next2d-framework"}

BaseDependencies == <<"@next2d/framework">>

BaseDevDependencies ==
    << "@next2d/vite-auto-loader-plugin", "jsdom", "vite", "vitest",
       "@vitest/web-worker", "vitest-webgl-canvas-mock", "@types/node",
       "@capacitor/cli", "@capacitor/core", "@capacitor/ios",
       "@capacitor/android" >>

\* ------------------------------------------------------------------ inputs
\* the <project-directory> arguments tried
ArgvNames ==
    {"my-app", "next2d", "next2d-player", "next2d-framework", "My App"}

\* the JavaScript value undefined
Undefined == "<undefined>"

\* the value of program.opts().template: undefined, or a --template value
TemplateOptions == {Undefined, "@next2d/framework-typescript-template"}

\* process.argv, as <<the positional argument if any, the --template value>>
Argv ==
    { << <<name>>, option >> : name \in ArgvNames, option \in TemplateOptions }
    \cup { << <<>>, Undefined >> }

\* keys and values a template.json may declare
TemplateKeys == {"left-pad", "@next2d/framework", DefaultTemplate}
TemplateValues == {Wildcard, "1.0.0"}

\* the version specifier npm saves for a package it resolved itself
RegistrySpec == "^latest"

ExitCodes == 0..MaxExitCode

\* ----------------------------------------------------------------- helpers
Range(s) == {s[i] : i \in DOMAIN s}

EmptyMap == [k \in {} |-> ""]

\* obj[key] = value on a JSON object
Put(map, key, value) ==
    [k \in (DOMAIN map) \cup {key} |-> IF k = key THEN value ELSE map[k]]

\* delete obj[key]
Delete(map, key) == [k \in (DOMAIN map) \ {key} |-> map[k]]

\* a JSON object as parsed from a file: its entries in file order, keys distinct
Objects(max) ==
    UNION { { s \in [1..n -> TemplateKeys \X TemplateValues] :
                \A i, j \in 1..n : i # j => s[i][1] # s[j][1] }
            : n \in 0..max }

\* Object.keys(obj)
ObjectKeys(obj) == [i \in DOMAIN obj |-> obj[i][1]]

\* obj[name], for a name of Object.keys(obj)
Get(obj, name) == obj[CHOOSE i \in DOMAIN obj : obj[i][1] = name][2]

\* an optional value (an absent file, an undefined field): <<>> or <<v>>
Optional(S) == {<<>>} \cup {<<v>> : v \in S}

\* the number of entries of an optional mapping
NumEntries(mapping) == IF mapping = <<>> THEN 0 ELSE Len(mapping[1])

\* the Packages interface: optional dependencies, optional devDependencies
PackagesValues ==
    { p \in [ dependencies    : Optional(Objects(MaxTemplateEntries)),
              devDependencies : Optional(Objects(MaxTemplateEntries)) ] :
        NumEntries(p.dependencies) + NumEntries(p.devDependencies)
            <= MaxTemplateEntries }

\* the TemplateJson interface: an optional package
TemplateJsonValues == [package : Optional(PackagesValues)]

\* template.json in the installed template package: absent, or a TemplateJson
TemplateJsonFiles == Optional(TemplateJsonValues)

\* `${command} ${args.join(" ")}`, as its sequence of words
CommandLine(args) == <<command>> \o args

\* path.resolve(app_name), as path segments from the working directory on;
\* the empty string resolves to the working directory itself
Resolve(app_name) == IF app_name = "" THEN <<"cwd">> ELSE <<"cwd", app_name>>

\* path.basename(root)
Basename(root) == root[Len(root)]

\* ------------------------------------------------------------------- state
VARIABLES
    pc,               \* position of the single thread of control
    projectName,      \* module variable set by the commander action callback
    options,          \* execute's options: <<>> or <<program.opts()>>
    template,         \* the template parameter of createApp / install
    root,             \* path.resolve(app_name), <<>> before createApp
    projectDir,       \* TRUE once the project directory exists
    packageJsonFile,  \* <root>/package.json on disk: <<>> or <<manifest>>
    gitignoreFile,    \* <root>/.gitignore on disk: <<>> or <<contents>>
    copiedFiles,      \* files of the template payload copied into <root>
    nodeModules,      \* the template package npm installed: <<>> or <<package>>,
                      \* its template.json and template folder as stage 2 found them
    cwdCheck,         \* checkThatNpmCanReadCwd's call: <<>> or <<output, result>>
    npmInfo,          \* createApp's npmInfo: <<>> or <<checkNpmVersion's record>>
    dependencies,     \* install's dependencies array
    devDependencies,  \* install's devDependencies array
    child,            \* the spawned child process: <<>> or <<process>>
    promise,          \* state of the two promises of install
    exited,           \* TRUE once the process has terminated
    exitStatus,       \* its exit status
    log               \* history: everything the run did, in order

vars == << pc, projectName, options, template, root, projectDir, packageJsonFile,
           gitignoreFile, copiedFiles, nodeModules, cwdCheck, npmInfo,
           dependencies, devDependencies, child, promise, exited, exitStatus,
           log >>

\* one entry of the history
Event(kind, what, args, code) ==
    [kind |-> kind, what |-> what, args |-> args, code |-> code]

EvPrint(what, args) == Event("print", what, args, 0)
EvWrite(what) == Event("write", what, <<>>, 0)
EvWriteJson(what, data) == Event("write", what, <<data>>, 0)
EvSpawn(site, args) == Event("spawn", site, args, 0)
EvClose(site, args, code) == Event("close", site, args, code)
EvExit(code) == Event("exit", "process.exit", <<>>, code)

Init ==
    /\ pc = "execute"
    /\ projectName = ""
    /\ options = <<>>
    /\ template = ""
    /\ root = <<>>
    /\ projectDir = FALSE
    /\ packageJsonFile = <<>>
    /\ gitignoreFile = <<>>
    /\ copiedFiles = {}
    /\ nodeModules = <<>>
    /\ cwdCheck = <<>>
    /\ npmInfo = <<>>
    /\ dependencies = <<>>
    /\ devDependencies = <<>>
    /\ child = <<>>
    /\ promise = <<"none", "none">>
    /\ exited = FALSE
    /\ exitStatus = 0
    /\ log = <<>>

\* variant: the handler prints and returns without process.exit
ProcessExitMissing(evs, status) ==
    /\ UNCHANGED << exited, exitStatus >>
    /\ pc' = "eventLoop"
    /\ log' = log \o evs

\* variant: a close handler ends the process with the child's exit status
ProcessExitChildStatus(evs, status) ==
    LET given == IF evs # <<>> /\ evs[1].kind = "close" THEN evs[1].code
                 ELSE status
    IN  /\ exited' = TRUE
        /\ exitStatus' = given
        /\ pc' = "exited"
        /\ log' = log \o evs \o <<EvExit(given)>>

\* process.exit(status), after the events in evs
ProcessExit(evs, status) ==
    /\ exited' = TRUE
    /\ exitStatus' = status
    /\ pc' = "exited"
    /\ log' = log \o evs \o <<EvExit(status)>>

\* --------------------------------------------------------------- preflight
\* execute: commander parses argv, the action callback stores the name,
\* then createApp(projectName, options.template) is entered. Without a
\* positional argument the callback is not invoked: commander either reports
\* the missing argument and ends the process itself, or returns from parse
execute ==
    /\ pc = "execute"
    /\ \E argv \in Argv :
       \E reported \in (IF argv[1] = <<>> THEN BOOLEAN ELSE {FALSE}) :
          IF reported
          THEN /\ ProcessExit(<<EvPrint("error: missing required argument",
                                        <<"project-directory">>)>>, 1)
               /\ UNCHANGED << projectName, options, template, root >>
          ELSE /\ projectName' = IF argv[1] = <<>> THEN projectName ELSE argv[1][1]
               /\ IF projectName' = Undefined
                  THEN /\ ProcessExit(<<EvPrint("Please specify the project directory", <<>>)>>, 1)
                       /\ UNCHANGED << options, template, root >>
                  ELSE /\ options' = << [template |-> argv[2]] >>
                       /\ template' = IF options'[1].template = Undefined
                                      THEN DefaultTemplate
                                      ELSE options'[1].template
                       /\ root' = Resolve(projectName')
                       /\ pc' = "checkAppName"
                       /\ UNCHANGED << exited, exitStatus, log >>
    /\ UNCHANGED << projectDir, packageJsonFile, gitignoreFile, copiedFiles,
                    nodeModules, dependencies, devDependencies, child,
                    promise >>
    /\ UNCHANGED << cwdCheck, npmInfo >>

\* validate-npm-package-name: validForNewPackages, on the names tried
validForNewPackages(app_name) == app_name \notin {"My App", ""}

\* checkAppName(appName)
checkAppName ==
    /\ pc = "checkAppName"
    /\ LET app_name == Basename(root) IN
       IF ~validForNewPackages(app_name)
       THEN /\ ProcessExit(<<EvPrint("naming restrictions", <<app_name>>)>>, 1)
       ELSE IF app_name \in ReservedNames
       THEN /\ ProcessExit(<<EvPrint("dependency with the same name", <<app_name>>)>>, 1)
       ELSE /\ pc' = "ensureDir"
            /\ UNCHANGED << exited, exitStatus, log >>
    /\ UNCHANGED << projectName, template, root, projectDir, packageJsonFile,
                    gitignoreFile, copiedFiles, nodeModules, dependencies,
                    devDependencies, child, promise >>
    /\ UNCHANGED << cwdCheck, npmInfo >>
    /\ UNCHANGED options

\* the stub manifest createApp writes
StubManifest(appName) ==
    [ name            |-> appName,
      description     |-> <<"Details of", appName>>,
      version         |-> "0.0.1",
      private         |-> TRUE,
      type            |-> "module",
      scripts         |-> "scripts",
      dependencies    |-> <<>>,
      devDependencies |-> <<>> ]

\* variant: the directory is created, the stub manifest is not written
createProjectDirOnly ==
    /\ pc = "ensureDir"
    /\ projectDir' = TRUE
    /\ log' = log \o << EvWrite("mkdir"),
                        EvPrint("Creating a new Next2D app in", root) >>
    /\ pc' = "checkThatNpmCanReadCwd"
    /\ UNCHANGED << projectName, options, template, root, packageJsonFile,
                    gitignoreFile, copiedFiles, nodeModules, cwdCheck, npmInfo,
                    dependencies, devDependencies, child, promise, exited,
                    exitStatus >>

\* createApp: ensureDirSync, the stub manifest, chdir. For the empty path
\* fs.ensureDirSync either finds the working directory or throws
createProject ==
    /\ pc = "ensureDir"
    /\ \E made \in (IF projectName = "" THEN BOOLEAN ELSE {TRUE}) :
          IF made
          THEN /\ projectDir' = TRUE
               /\ packageJsonFile' = << StubManifest(Basename(root)) >>
               /\ log' = log \o << EvWrite("mkdir"),
                                   EvPrint("Creating a new Next2D app in", root),
                                   EvWriteJson("package.json",
                                               StubManifest(Basename(root))) >>
               /\ pc' = "checkThatNpmCanReadCwd"
               /\ UNCHANGED << exited, exitStatus >>
          ELSE /\ ProcessExit(<<EvPrint("uncaught exception", <<"ensureDirSync">>)>>, 1)
               /\ UNCHANGED << projectDir, packageJsonFile >>
    /\ UNCHANGED << projectName, template, root, gitignoreFile, copiedFiles,
                    nodeModules, dependencies, devDependencies, child,
                    promise >>
    /\ UNCHANGED << cwdCheck, npmInfo >>
    /\ UNCHANGED options

\* what `npm config list` may give back to spawn.sync: <<>> when the spawn
\* throws, else its output lines, each <<starts with "; cwd = ", the rest>>
ConfigLines(cwd) == { <<FALSE, <<>>>>, <<TRUE, cwd>>, <<TRUE, <<"elsewhere">>>> }

NpmConfigOutputs(cwd) ==
    Optional(UNION { [1..n -> ConfigLines(cwd)] : n \in 0..MaxConfigLines })

\* variant: the last line with the prefix is taken
RECURSIVE FindPrefixedLast(_, _)
FindPrefixedLast(lines, idx) ==
    IF idx > Len(lines) THEN 0
    ELSE LET later == FindPrefixedLast(lines, idx + 1) IN
         IF later # 0 THEN later
         ELSE IF lines[idx][1] THEN idx ELSE 0

\* lines.find((line) => line.startsWith(prefix)): index of the first, or 0
RECURSIVE FindPrefixed(_, _)
FindPrefixed(lines, idx) ==
    IF idx > Len(lines) THEN 0
    ELSE IF lines[idx][1] THEN idx
    ELSE FindPrefixed(lines, idx + 1)

\* the value checkThatNpmCanReadCwd returns
NpmCanReadCwd(childOutput, cwd) ==
    IF childOutput = <<>> THEN TRUE
    ELSE LET lines == childOutput[1]
             found == FindPrefixed(lines, 1)
         IN  IF found = 0 THEN TRUE
             ELSE lines[found][2] = cwd

\* checkThatNpmCanReadCwd(), called by createApp after process.chdir(root):
\* it prints the error itself before it returns false
checkThatNpmCanReadCwd ==
    /\ pc = "checkThatNpmCanReadCwd"
    /\ \E childOutput \in NpmConfigOutputs(root) :
          LET result == NpmCanReadCwd(childOutput, root) IN
          /\ cwdCheck' = << [childOutput |-> childOutput, result |-> result] >>
          /\ log' = IF result THEN log
                    ELSE Append(log, EvPrint("Could not start an npm process in the right directory", root))
    /\ pc' = "cwdChecked"
    /\ UNCHANGED << projectName, template, root, projectDir, packageJsonFile,
                    gitignoreFile, copiedFiles, nodeModules, npmInfo,
                    dependencies, devDependencies, child, promise, exited,
                    exitStatus >>
    /\ UNCHANGED options

\* createApp: if (!checkThatNpmCanReadCwd()) process.exit(1)
exitUnlessNpmCanReadCwd ==
    /\ pc = "cwdChecked"
    /\ IF cwdCheck[1].result
       THEN /\ pc' = "checkNpmVersion"
            /\ cwdCheck' = <<>>
            /\ UNCHANGED << exited, exitStatus, log >>
       ELSE /\ ProcessExit(<<>>, 1)
            /\ UNCHANGED cwdCheck
    /\ UNCHANGED << projectName, template, root, projectDir, packageJsonFile,
                    gitignoreFile, copiedFiles, nodeModules, npmInfo,
                    dependencies, devDependencies, child, promise >>
    /\ UNCHANGED options

\* what execSync("npm --version").toString().trim() may give back: <<>> when
\* it throws, else the text printed
NpmVersionOutputs == Optional({ "5.6.0", "6.0.0", "10.2.0", "" })

\* the version semver reads from a string, <<>> when it is not a version
\* (semver then throws)
SemverParse(version) ==
    CASE version = "5.6.0"  -> << <<5, 6, 0>> >>
      [] version = "6.0.0"  -> << <<6, 0, 0>> >>
      [] version = "10.2.0" -> << <<10, 2, 0>> >>
      [] OTHER              -> <<>>

\* semver.gte(a, b), on parsed versions
SemverGte(a, b) ==
    \/ a[1] > b[1]
    \/ a[1] = b[1] /\ a[2] > b[2]
    \/ a[1] = b[1] /\ a[2] = b[2] /\ a[3] >= b[3]

\* the record checkNpmVersion returns: the defaults stay when execSync
\* throws, hasMinNpm stays false when semver.gte throws
NpmVersion(versionOutput) ==
    IF versionOutput = <<>>
    THEN [hasMinNpm |-> FALSE, npmVersion |-> "0.0.0"]
    ELSE IF SemverParse(versionOutput[1]) = <<>>
    THEN [hasMinNpm |-> FALSE, npmVersion |-> versionOutput[1]]
    ELSE [hasMinNpm  |-> SemverGte(SemverParse(versionOutput[1])[1], <<6, 0, 0>>),
          npmVersion |-> versionOutput[1]]

\* createApp: const npmInfo = checkNpmVersion()
checkNpmVersion ==
    /\ pc = "checkNpmVersion"
    /\ \E versionOutput \in NpmVersionOutputs :
          npmInfo' = << NpmVersion(versionOutput) >>
    /\ pc' = "npmVersionChecked"
    /\ UNCHANGED << projectName, template, root, projectDir, packageJsonFile,
                    gitignoreFile, copiedFiles, nodeModules, cwdCheck,
                    dependencies, devDependencies, child, promise, exited,
                    exitStatus, log >>
    /\ UNCHANGED options

\* variant: the warning is printed for every version that is not recent
WarnsWhenNotRecent(info) == ~info.hasMinNpm

\* if (!npmInfo.hasMinNpm) if (npmInfo.npmVersion): the empty string is falsy
WarnsOldNpm(info) == ~info.hasMinNpm /\ info.npmVersion # ""

\* createApp: the advisory version warning; npmInfo is not read again
warnOldNpm ==
    /\ pc = "npmVersionChecked"
    /\ log' = IF WarnsOldNpm(npmInfo[1])
              THEN Append(log, EvPrint("You are using npm", <<npmInfo[1].npmVersion>>))
              ELSE log
    /\ npmInfo' = <<>>
    /\ pc' = "writeGitignore"
    /\ UNCHANGED << projectName, template, root, projectDir, packageJsonFile,
                    gitignoreFile, copiedFiles, nodeModules, cwdCheck,
                    dependencies, devDependencies, child, promise, exited,
                    exitStatus >>
    /\ UNCHANGED options

\* ignoreList.join(os.EOL), the contents createApp gives .gitignore
IgnoreList == "ignoreList"

\* createApp: the .gitignore write
writeGitignore ==
    /\ pc = "writeGitignore"
    /\ gitignoreFile' = << IgnoreList >>
    /\ log' = Append(log, EvWrite(".gitignore"))
    /\ pc' = "install"
    /\ UNCHANGED << projectName, template, root, projectDir, packageJsonFile,
                    copiedFiles, nodeModules, dependencies, devDependencies,
                    child, promise, exited, exitStatus >>
    /\ UNCHANGED << cwdCheck, npmInfo >>
    /\ UNCHANGED options

\* ---------------------------------------------------------------- pipeline
\* the argument lists of the four invocations
TemplateInstallArgs(t) ==
    <<"install", "--no-audit", "--save-dev", "--loglevel", "error", t>>

\* variant: the uninstall names the default template
TemplateUninstallArgsDefault(t) ==
    <<"uninstall", "--no-audit", "--save-dev", "--loglevel", "error",
      DefaultTemplate>>

TemplateUninstallArgs(t) ==
    <<"uninstall", "--no-audit", "--save-dev", "--loglevel", "error", t>>

\* variant: the array is not concatenated
DependencyInstallArgsNoPackages(deps) ==
    <<"install", "--no-audit", "--save", "--loglevel", "error">>

DependencyInstallArgs(deps) ==
    <<"install", "--no-audit", "--save", "--loglevel", "error">> \o deps

\* variant: the list createApp passed is used, not the array stage 2 grew
DevDependencyInstallArgsBaseOnly(devDeps) ==
    <<"install", "--no-audit", "--save-dev", "--loglevel", "error">>
        \o BaseDevDependencies

DevDependencyInstallArgs(devDeps) ==
    <<"install", "--no-audit", "--save-dev", "--loglevel", "error">> \o devDeps

\* the package identifiers at the end of an argument list
PackagesOf(args) == SubSeq(args, 6, Len(args))

\* spawn(command, args, { stdio: "inherit" }) at a call site
SpawnChild(site, args) == << [site |-> site, args |-> args, code |-> <<>>] >>

\* install(root, appName, template, [...], [...]): the synchronous part, up to
\* the spawn of the template install
install ==
    /\ pc = "install"
    /\ dependencies' = BaseDependencies
    /\ devDependencies' = BaseDevDependencies
    /\ promise' = <<"pending", "none">>
    /\ child' = SpawnChild("template-install", TemplateInstallArgs(template))
    /\ log' = log \o << EvPrint("Installing packages", <<>>),
                        EvSpawn("template-install", TemplateInstallArgs(template)) >>
    /\ pc' = "eventLoop"
    /\ UNCHANGED << projectName, template, root, projectDir, packageJsonFile,
                    gitignoreFile, copiedFiles, nodeModules, exited, exitStatus >>
    /\ UNCHANGED << cwdCheck, npmInfo >>
    /\ UNCHANGED options

\* ------------------------------------------------- the package manager (env)
\* npm install --save / --save-dev of the packages pkgs: every one of them
\* is saved in the mapping the flag names, with the specifier it already has
\* there (keep) or the one npm resolves, and leaves the other mapping (move)
NpmSave(manifest, field, pkgs, keep, move) ==
    LET other == IF field = "dependencies" THEN "devDependencies" ELSE "dependencies"
        old   == IF manifest[field] = <<>> THEN EmptyMap ELSE manifest[field][1]
        saved == [k \in (DOMAIN old) \cup Range(pkgs) |->
                     IF k \in Range(pkgs) /\ ~(keep /\ k \in DOMAIN old)
                     THEN RegistrySpec
                     ELSE old[k]]
    IN  [f \in DOMAIN manifest |->
            IF f = field THEN << saved >>
            ELSE IF f = other /\ move /\ manifest[other] # <<>>
            THEN << [k \in (DOMAIN manifest[other][1]) \ Range(pkgs) |->
                        manifest[other][1][k]] >>
            ELSE manifest[f]]

\* npm uninstall: the name leaves the mapping the save flag names and, when
\* all, the other mapping too
NpmRemove(manifest, field, name, all) ==
    [f \in DOMAIN manifest |->
        IF f \in {"dependencies", "devDependencies"}
           /\ (f = field \/ all) /\ manifest[f] # <<>>
        THEN << Delete(manifest[f][1], name) >>
        ELSE manifest[f]]

\* the files every template folder holds
PayloadFiles == {"src/index.js"}

\* the template folders tried: one that holds nothing else, one that also
\* holds a file with the path of the manifest and one with the path of the
\* ignore list
TemplateDirs ==
    {PayloadFiles \cup more : more \in {{}, {"package.json", ".gitignore"}}}

\* the template folder of the installed package: absent, or its files
TemplateDirValues == Optional(TemplateDirs)

\* the package.json and the .gitignore of a template folder that has them
TemplateManifest ==
    [ name            |-> "template-app",
      description     |-> <<"Details of", "template-app">>,
      version         |-> "1.0.0",
      private         |-> FALSE,
      type            |-> "module",
      scripts         |-> "template scripts",
      dependencies    |-> <<>>,
      devDependencies |-> <<>> ]

TemplateIgnoreList == "template ignoreList"

\* what npm leaves in node_modules: an install puts the template package
\* there, the uninstall takes it away, the stage 3 installs do not touch it
NpmModules(modules, site, pkgs) ==
    IF site = "template-install"
    THEN << [ name          |-> pkgs[1],
              installed     |-> TRUE,
              templateJson  |-> <<>>,
              templateDir   |-> FALSE,
              templateFiles |-> {} ] >>
    ELSE IF site = "template-uninstall"
    THEN << [modules[1] EXCEPT !.installed = FALSE] >>
    ELSE modules

\* a spawned npm process runs to its end. With status 0 the packages are
\* installed or removed and saved in the manifest; with any other status it
\* may have stopped before or after changing node_modules, and the manifest is
\* as it was (npm saves it as the last step of a run that succeeds)
npmExit ==
    /\ pc = "eventLoop"
    /\ child # <<>>
    /\ child[1].code = <<>>
    /\ \E code \in ExitCodes :
          LET args == child[1].args
              pkgs == PackagesOf(args)
              field == IF args[3] = "--save" THEN "dependencies"
                       ELSE "devDependencies"
          IN  /\ child' = << [child[1] EXCEPT !.code = <<code>>] >>
              /\ \E done \in (IF code = 0 THEN {TRUE} ELSE BOOLEAN) :
                    nodeModules' = IF done
                                   THEN NpmModules(nodeModules, child[1].site, pkgs)
                                   ELSE nodeModules
              /\ IF code # 0
                 THEN UNCHANGED packageJsonFile
                 ELSE IF args[1] = "uninstall"
                 THEN \E all \in BOOLEAN :
                         packageJsonFile' =
                             << NpmRemove(packageJsonFile[1], field, pkgs[1], all) >>
                 ELSE \E keep, move \in BOOLEAN :
                         packageJsonFile' =
                             << NpmSave(packageJsonFile[1], field, pkgs, keep, move) >>
    /\ UNCHANGED << pc, projectName, template, root, projectDir, gitignoreFile,
                    copiedFiles, dependencies, devDependencies, promise,
                    exited, exitStatus, log >>
    /\ UNCHANGED << cwdCheck, npmInfo >>
    /\ UNCHANGED options

\* ------------------------------------------------------- stage 2: the merge
\* variants of the exit-status test: only status 1 counts, nothing counts
FailedOnlyOne(code) == code = 1

FailedNever(code) == code < 0

\* code !== 0 in the close handlers
Failed(code) == code # 0

\* templateJson after the optional require of template.json
LoadTemplateJson(file) == IF file = <<>> THEN [package |-> <<>>] ELSE file[1]

\* variant: the mappings are created when missing but keep their entries
ResetMappingsKeep(packageJson) ==
    [packageJson EXCEPT
        !.dependencies    = IF @ = <<>> THEN << EmptyMap >> ELSE @,
        !.devDependencies = IF @ = <<>> THEN << EmptyMap >> ELSE @]

\* variant: the manifest is built anew around the two mappings and loses its
\* scripts
ResetMappingsOnly(packageJson) ==
    [packageJson EXCEPT !.dependencies    = << EmptyMap >>,
                        !.devDependencies = << EmptyMap >>,
                        !.scripts         = ""]

\* packageJson.dependencies = {}; packageJson.devDependencies = {}
ResetMappings(packageJson) ==
    [packageJson EXCEPT !.dependencies    = << EmptyMap >>,
                        !.devDependencies = << EmptyMap >>]

\* variants of the loop: every entry is pushed, every entry is assigned, a
\* wildcard entry is skipped without being pushed
RECURSIVE MergeLoopPushAll(_, _, _, _)
MergeLoopPushAll(obj, idx, mapping, list) ==
    IF idx > Len(obj) THEN [mapping |-> mapping, list |-> list]
    ELSE MergeLoopPushAll(obj, idx + 1, mapping, Append(list, obj[idx][1]))

RECURSIVE MergeLoopAssignAll(_, _, _, _)
MergeLoopAssignAll(obj, idx, mapping, list) ==
    IF idx > Len(obj) THEN [mapping |-> mapping, list |-> list]
    ELSE MergeLoopAssignAll(obj, idx + 1,
                            Put(mapping, obj[idx][1], obj[idx][2]), list)

RECURSIVE MergeLoopDropWildcard(_, _, _, _)
MergeLoopDropWildcard(obj, idx, mapping, list) ==
    IF idx > Len(obj) THEN [mapping |-> mapping, list |-> list]
    ELSE IF obj[idx][2] = Wildcard
    THEN MergeLoopDropWildcard(obj, idx + 1, mapping, list)
    ELSE MergeLoopDropWildcard(obj, idx + 1,
                               Put(mapping, obj[idx][1], obj[idx][2]), list)

\* one for-loop over Object.keys(obj): a wildcard value pushes the name to the
\* devDependencies array, any other value is assigned into the mapping
RECURSIVE MergeLoop(_, _, _, _)
MergeLoop(obj, idx, mapping, list) ==
    LET keys == ObjectKeys(obj) IN
    IF idx > Len(keys) THEN [mapping |-> mapping, list |-> list]
    ELSE LET name == keys[idx] IN
         IF Get(obj, name) = Wildcard
         THEN MergeLoop(obj, idx + 1, mapping, Append(list, name))
         ELSE MergeLoop(obj, idx + 1, Put(mapping, name, Get(obj, name)), list)

\* the merge of templateJson.package into packageJson and the install list
MergeTemplate(packageJson, templateJson, devDeps) ==
    LET templatePackage == templateJson.package IN
    IF templatePackage = <<>>
    THEN [packageJson |-> packageJson, devDependencies |-> devDeps]
    ELSE LET templateDependencies == templatePackage[1].dependencies
             first == IF templateDependencies = <<>>
                      THEN [mapping |-> packageJson.dependencies[1], list |-> devDeps]
                      ELSE MergeLoop(templateDependencies[1], 1,
                                     packageJson.dependencies[1], devDeps)
             templateDevDependencies == templatePackage[1].devDependencies
             second == IF templateDevDependencies = <<>>
                       THEN [mapping |-> packageJson.devDependencies[1],
                             list |-> first.list]
                       ELSE MergeLoop(templateDevDependencies[1], 1,
                                      packageJson.devDependencies[1], first.list)
         IN  [ packageJson     |-> [packageJson EXCEPT
                                       !.dependencies    = << first.mapping >>,
                                       !.devDependencies = << second.mapping >>],
               devDependencies |-> second.list ]

\* what stage 2 computes from the disk: the manifest it writes back and the
\* devDependencies array it leaves
Stage2(manifestFile, templateJsonFile, devDeps) ==
    MergeTemplate(ResetMappings(manifestFile[1]),
                  LoadTemplateJson(templateJsonFile), devDeps)

\* variant: the package is looked up through its template.json
ResolvableWithDescriptor(modules) ==
    modules # <<>> /\ modules[1].installed /\ modules[1].templateJson # <<>>

\* require.resolve(`${template}/package.json`, { paths: [root] }) finds the package
Resolvable(modules) == modules # <<>> /\ modules[1].installed

\* variant: the existence test looks at the package directory
ExistsTemplateDirAlways(modules) == modules[1].installed

\* fs.existsSync(templateDir), templateDir the template folder of the package
ExistsTemplateDir(modules) == modules[1].templateDir

\* variant: a file that is already in the project root is not copied over
CopySyncKeep(file, files, source, dest) ==
    IF file \in files /\ dest = <<>> THEN source ELSE dest

\* fs.copySync(templateDir, root), for one path of the project root: a file
\* of the template folder replaces the one that is there
CopySync(file, files, source, dest) ==
    IF file \in files THEN source ELSE dest

\* close handler of the template install
templateInstallClose ==
    /\ pc = "eventLoop"
    /\ child # <<>>
    /\ child[1].site = "template-install"
    /\ child[1].code # <<>>
    /\ LET code == child[1].code[1]
           args == child[1].args
           closed == EvClose("template-install", args, code)
       IN
       IF Failed(code)
       THEN /\ promise' = <<"rejected", "none">>
            /\ ProcessExit(<<closed>>, 1)
            /\ child' = <<>>
            /\ UNCHANGED << packageJsonFile, gitignoreFile, copiedFiles,
                            devDependencies, nodeModules >>
       ELSE IF ~Resolvable(nodeModules)
       THEN \* require.resolve throws: an uncaught exception ends the process
            /\ ProcessExit(<< closed, EvPrint("Installing template", <<template>>),
                              EvPrint("uncaught exception", <<template>>) >>, 1)
            /\ child' = <<>>
            /\ UNCHANGED << packageJsonFile, gitignoreFile, copiedFiles,
                            devDependencies, promise, nodeModules >>
       ELSE \E file \in TemplateJsonFiles, folder \in TemplateDirValues :
            LET found == << [nodeModules[1] EXCEPT
                                !.templateJson  = file,
                                !.templateDir   = folder # <<>>,
                                !.templateFiles = IF folder = <<>> THEN {}
                                                  ELSE folder[1]] >>
                files == found[1].templateFiles
                merged == Stage2(packageJsonFile, file, devDependencies)
                templateDir == <<"node_modules", template, "template">>
                done == << closed,
                           EvPrint("Installing template", <<template>>),
                           EvWriteJson("package.json", merged.packageJson) >>
            IN  /\ nodeModules' = found
                /\ devDependencies' = merged.devDependencies
                /\ UNCHANGED << exited, exitStatus, promise >>
                /\ IF ExistsTemplateDir(found)
                   THEN /\ copiedFiles' = files
                        /\ packageJsonFile' =
                              CopySync("package.json", files, << TemplateManifest >>,
                                       << merged.packageJson >>)
                        /\ gitignoreFile' =
                              CopySync(".gitignore", files, << TemplateIgnoreList >>,
                                       gitignoreFile)
                        /\ child' = SpawnChild("template-uninstall",
                                               TemplateUninstallArgs(template))
                        /\ log' = log \o done \o
                                  << EvWrite("template"),
                                     EvSpawn("template-uninstall",
                                             TemplateUninstallArgs(template)) >>
                        /\ pc' = "eventLoop"
                   ELSE /\ packageJsonFile' = << merged.packageJson >>
                        /\ child' = <<>>
                        /\ log' = log \o done \o
                                  << EvPrint("Could not locate supplied template",
                                             templateDir) >>
                        /\ pc' = "eventLoop"
                        /\ UNCHANGED << copiedFiles, gitignoreFile >>
    /\ UNCHANGED << projectName, template, root, projectDir, dependencies >>
    /\ UNCHANGED << cwdCheck, npmInfo >>
    /\ UNCHANGED options

\* close handler of the template uninstall
templateUninstallClose ==
    /\ pc = "eventLoop"
    /\ child # <<>>
    /\ child[1].site = "template-uninstall"
    /\ child[1].code # <<>>
    /\ LET code == child[1].code[1]
           closed == EvClose("template-uninstall", child[1].args, code)
       IN
       IF Failed(code)
       THEN /\ promise' = <<"rejected", "none">>
            /\ ProcessExit(<<closed>>, 1)
       ELSE /\ promise' = <<"resolved", "none">>
            /\ log' = Append(log, closed)
            /\ pc' = "then"
            /\ UNCHANGED << exited, exitStatus >>
    /\ child' = <<>>
    /\ UNCHANGED << projectName, template, root, projectDir, packageJsonFile,
                    gitignoreFile, copiedFiles, nodeModules, dependencies,
                    devDependencies >>
    /\ UNCHANGED << cwdCheck, npmInfo >>
    /\ UNCHANGED options

\* variant: the dependency install is spawned without waiting for the
\* template uninstall to close
thenDependencyInstallEager ==
    /\ pc = "eventLoop"
    /\ child # <<>>
    /\ child[1].site = "template-uninstall"
    /\ promise[2] = "none"
    /\ promise' = << promise[1], "pending" >>
    /\ child' = SpawnChild("dependency-install", DependencyInstallArgs(dependencies))
    /\ log' = Append(log, EvSpawn("dependency-install",
                                  DependencyInstallArgs(dependencies)))
    /\ UNCHANGED << pc, projectName, options, template, root, projectDir,
                    packageJsonFile, gitignoreFile, copiedFiles, nodeModules,
                    cwdCheck, npmInfo, dependencies, devDependencies, exited,
                    exitStatus >>

\* variant: the callback also runs when the second promise is settled
thenDependencyInstallAgain ==
    /\ pc = "then"
    /\ promise[1] = "resolved"
    /\ promise' = <<"resolved", "pending">>
    /\ child' = SpawnChild("dependency-install", DependencyInstallArgs(dependencies))
    /\ log' = Append(log, EvSpawn("dependency-install",
                                  DependencyInstallArgs(dependencies)))
    /\ pc' = "eventLoop"
    /\ UNCHANGED << projectName, options, template, root, projectDir,
                    packageJsonFile, gitignoreFile, copiedFiles, nodeModules,
                    cwdCheck, npmInfo, dependencies, devDependencies, exited,
                    exitStatus >>

\* first .then callback: the dependency install is spawned
thenDependencyInstall ==
    /\ pc = "then"
    /\ promise[1] = "resolved"
    /\ promise[2] = "none"
    /\ promise' = <<"resolved", "pending">>
    /\ child' = SpawnChild("dependency-install", DependencyInstallArgs(dependencies))
    /\ log' = Append(log, EvSpawn("dependency-install",
                                  DependencyInstallArgs(dependencies)))
    /\ pc' = "eventLoop"
    /\ UNCHANGED << projectName, template, root, projectDir, packageJsonFile,
                    gitignoreFile, copiedFiles, nodeModules, dependencies,
                    devDependencies, exited, exitStatus >>
    /\ UNCHANGED << cwdCheck, npmInfo >>
    /\ UNCHANGED options

\* close handler of the dependency install
dependencyInstallClose ==
    /\ pc = "eventLoop"
    /\ child # <<>>
    /\ child[1].site = "dependency-install"
    /\ child[1].code # <<>>
    /\ LET code == child[1].code[1]
           closed == EvClose("dependency-install", child[1].args, code)
       IN
       IF Failed(code)
       THEN /\ promise' = <<"resolved", "rejected">>
            /\ ProcessExit(<<closed>>, 1)
       ELSE /\ promise' = <<"resolved", "resolved">>
            /\ log' = Append(log, closed)
            /\ pc' = "then"
            /\ UNCHANGED << exited, exitStatus >>
    /\ child' = <<>>
    /\ UNCHANGED << projectName, template, root, projectDir, packageJsonFile,
                    gitignoreFile, copiedFiles, nodeModules, dependencies,
                    devDependencies >>
    /\ UNCHANGED << cwdCheck, npmInfo >>
    /\ UNCHANGED options

\* second .then callback: the devDependency install is spawned
thenDevDependencyInstall ==
    /\ pc = "then"
    /\ promise[2] = "resolved"
    /\ child' = SpawnChild("devDependency-install",
                           DevDependencyInstallArgs(devDependencies))
    /\ log' = Append(log, EvSpawn("devDependency-install",
                                  DevDependencyInstallArgs(devDependencies)))
    /\ pc' = "eventLoop"
    /\ UNCHANGED << projectName, template, root, projectDir, packageJsonFile,
                    gitignoreFile, copiedFiles, nodeModules, dependencies,
                    devDependencies, promise, exited, exitStatus >>
    /\ UNCHANGED << cwdCheck, npmInfo >>
    /\ UNCHANGED options

\* close handler of the devDependency install
devDependencyInstallClose ==
    /\ pc = "eventLoop"
    /\ child # <<>>
    /\ child[1].site = "devDependency-install"
    /\ child[1].code # <<>>
    /\ LET code == child[1].code[1]
           args == child[1].args
           closed == EvClose("devDependency-install", args, code)
       IN
       IF Failed(code)
       THEN ProcessExit(<< closed, EvPrint("command", CommandLine(args)) >>, 1)
       ELSE /\ log' = log \o << closed,
                                EvPrint("Success! Created", <<Basename(root)>> \o root) >>
            /\ pc' = "idle"
            /\ UNCHANGED << exited, exitStatus >>
    /\ child' = <<>>
    /\ UNCHANGED << projectName, template, root, projectDir, packageJsonFile,
                    gitignoreFile, copiedFiles, nodeModules, dependencies,
                    devDependencies, promise >>
    /\ UNCHANGED << cwdCheck, npmInfo >>
    /\ UNCHANGED options

\* variant: a run that ends without the success summary removes what it
\* generated
processEndRollback ==
    /\ pc \in {"eventLoop", "idle"}
    /\ child = <<>>
    /\ ~exited
    /\ exited' = TRUE
    /\ exitStatus' = 0
    /\ pc' = "exited"
    /\ log' = Append(log, Event("exit", "end", <<>>, 0))
    /\ IF pc = "idle"
       THEN UNCHANGED << projectDir, packageJsonFile, gitignoreFile, copiedFiles >>
       ELSE /\ projectDir' = FALSE
            /\ packageJsonFile' = <<>>
            /\ gitignoreFile' = <<>>
            /\ copiedFiles' = {}
    /\ UNCHANGED << projectName, options, template, root, nodeModules, cwdCheck,
                    npmInfo, dependencies, devDependencies, child, promise >>

\* nothing is left to wait for: the process ends with status 0
processEnd ==
    /\ pc \in {"eventLoop", "idle"}
    /\ child = <<>>
    /\ ~exited
    /\ exited' = TRUE
    /\ exitStatus' = 0
    /\ pc' = "exited"
    /\ log' = Append(log, Event("exit", "end", <<>>, 0))
    /\ UNCHANGED << projectName, template, root, projectDir, packageJsonFile,
                    gitignoreFile, copiedFiles, nodeModules, dependencies,
                    devDependencies, child, promise >>
    /\ UNCHANGED << cwdCheck, npmInfo >>
    /\ UNCHANGED options

Next ==
    \/ execute
    \/ checkAppName
    \/ createProject
    \/ checkThatNpmCanReadCwd
    \/ exitUnlessNpmCanReadCwd
    \/ checkNpmVersion
    \/ warnOldNpm
    \/ writeGitignore
    \/ install
    \/ npmExit
    \/ templateInstallClose
    \/ templateUninstallClose
    \/ thenDependencyInstall
    \/ dependencyInstallClose
    \/ thenDevDependencyInstall
    \/ devDependencyInstallClose
    \/ processEnd

Spec == Init /\ [][Next]_vars

\* the runs in which every spawned npm process runs to its end and Node runs
\* every handler and callback that is ready
FairSpec == Spec /\ WF_vars(npmExit) /\ WF_vars(Next)

\* ------------------------------------------------------------- observations
\* the history holds an event of this kind at this call site / of this file
IsAt(i, kind, what) == log[i].kind = kind /\ log[i].what = what

\* how often the tool has written a file
NumWrites(what) == Cardinality({i \in DOMAIN log : IsAt(i, "write", what)})

\* the child spawned at site has closed with status 0 before position i
ClosedOkBefore(site, i) ==
    \E j \in 1..(i - 1) : IsAt(j, "close", site) /\ log[j].code = 0

\* position i of the history is a stage 2 action: the second manifest write,
\* the payload copy or the spawn of the template uninstall
Stage2Event(i) ==
    \/ IsAt(i, "write", "package.json")
         /\ \E j \in 1..(i - 1) : IsAt(j, "write", "package.json")
    \/ IsAt(i, "write", "template")
    \/ IsAt(i, "spawn", "template-uninstall")

\* position i of the history is the spawn of a stage 3 install
Stage3Event(i) ==
    \/ IsAt(i, "spawn", "dependency-install")
    \/ IsAt(i, "spawn", "devDependency-install")

\* the success summary has been printed
SuccessPrinted == \E i \in DOMAIN log : IsAt(i, "print", "Success! Created")

\* ------------------------------------------------------------------ claims
\* C1: stages run strictly in order. Every stage 2 action (merged manifest
\* written, payload copied, changed install list, template uninstall spawned)
\* comes after the template install closed with status 0, and every stage 3
\* spawn comes after the template uninstall closed with status 0.
C1_StagesInOrder ==
    /\ \A i \in DOMAIN log :
          /\ Stage2Event(i) => ClosedOkBefore("template-install", i)
          /\ Stage3Event(i) => /\ ClosedOkBefore("template-uninstall", i)
                               /\ ClosedOkBefore("template-install", i)
    /\ (copiedFiles # {} \/ devDependencies \notin {<<>>, BaseDevDependencies})
          => ClosedOkBefore("template-install", Len(log) + 1)

\* a run that went through all three stages
C1_Witness ==
    /\ \E i \in DOMAIN log : IsAt(i, "spawn", "devDependency-install")
    /\ copiedFiles # {}
    /\ NumWrites("package.json") = 2

\* C2: once the template install has closed with a non-zero status, the
\* manifest is never written a second time, no template file is copied, the
\* template uninstall is never spawned and no stage 3 install is spawned.
C2_Stage1FailureStopsPipeline ==
    (\E i \in DOMAIN log : IsAt(i, "close", "template-install") /\ log[i].code # 0)
    => /\ NumWrites("package.json") = 1
       /\ NumWrites("template") = 0
       /\ copiedFiles = {}
       /\ child = <<>>
       /\ \A j \in DOMAIN log : ~Stage2Event(j) /\ ~Stage3Event(j)

\* the template install closed with status 2 although npm had put the
\* template package on disk
C2_Witness ==
    /\ \E i \in DOMAIN log : IsAt(i, "close", "template-install") /\ log[i].code = 2
    /\ nodeModules # <<>>
    /\ pc = "exited"

\* C3: a non-zero exit status of any of the four invocations is fatal. From
\* its close event on the process has terminated with a non-zero status and
\* nothing is spawned, written or announced as a success after it.
C3_FailureIsFatal ==
    \A i \in DOMAIN log :
       (log[i].kind = "close" /\ log[i].code # 0)
       => /\ exited
          /\ exitStatus # 0
          /\ pc = "exited"
          /\ child = <<>>
          /\ \A j \in (i + 1)..Len(log) :
                /\ log[j].kind \notin {"spawn", "write", "close"}
                /\ ~IsAt(j, "print", "Success! Created")

\* the dependency install failed, in the handler that calls resolve() after
\* process.exit(1)
C3_Witness ==
    \E i \in DOMAIN log : IsAt(i, "close", "dependency-install") /\ log[i].code # 0

\* C4: whichever of the four invocations closes with a non-zero status, its
\* command line is written to the output before the process terminates.
C4_FailingCommandPrinted ==
    \A i \in DOMAIN log :
       (log[i].kind = "close" /\ log[i].code # 0 /\ exited)
       => \E j \in (i + 1)..Len(log) :
             /\ IsAt(j, "print", "command")
             /\ log[j].args = CommandLine(log[i].args)

\* ------------------------------------------------ the descriptor, observed
\* the entries template.json declares under package.<field>, <<>> when the
\* file, package or the field is missing
Declared(field) ==
    IF nodeModules = <<>> \/ nodeModules[1].templateJson = <<>> THEN <<>>
    ELSE LET json == nodeModules[1].templateJson[1] IN
         IF json.package = <<>> THEN <<>>
         ELSE IF json.package[1][field] = <<>> THEN <<>>
         ELSE json.package[1][field][1]

\* the keys declared with the wildcard, in declaration order
RECURSIVE WildcardKeys(_)
WildcardKeys(entries) ==
    IF entries = <<>> THEN <<>>
    ELSE (IF Head(entries)[2] = Wildcard THEN << Head(entries)[1] >> ELSE <<>>)
         \o WildcardKeys(Tail(entries))

\* the entries declared with another value, as a mapping
PinnedEntries(entries) ==
    [k \in {entries[i][1] : i \in {j \in DOMAIN entries : entries[j][2] # Wildcard}}
        |-> entries[CHOOSE i \in DOMAIN entries : entries[i][1] = k][2]]

\* a mapping of the manifest on disk, empty when the field is missing
OnDisk(field) ==
    IF packageJsonFile = <<>> \/ packageJsonFile[1][field] = <<>> THEN EmptyMap
    ELSE packageJsonFile[1][field][1]

\* the manifest on disk is the one stage 2 wrote: written a second time, not
\* replaced by a package.json of the template folder, and no npm process has
\* run to its end since
Stage2Persisted ==
    /\ NumWrites("package.json") = 2
    /\ "package.json" \notin copiedFiles
    /\ \A i \in DOMAIN log : ~IsAt(i, "close", "template-uninstall")
    /\ child # <<>> => child[1].code = <<>>

\* C5: every entry k: v of package.dependencies with v other than "*" is in
\* the manifest stage 2 persists, as dependencies[k] = v.
C5_PinnedDependenciesPersisted ==
    Stage2Persisted
    => \A i \in DOMAIN Declared("dependencies") :
          LET k == Declared("dependencies")[i][1]
              v == Declared("dependencies")[i][2]
          IN  v # Wildcard
              => /\ packageJsonFile[1].dependencies # <<>>
                 /\ k \in DOMAIN OnDisk("dependencies")
                 /\ OnDisk("dependencies")[k] = v

\* stage 2 has persisted a descriptor that pins left-pad and leaves another
\* dependency to the wildcard
C5_Witness ==
    /\ Stage2Persisted
    /\ <<"left-pad", "1.0.0">> \in Range(Declared("dependencies"))
    /\ <<"@next2d/framework", Wildcard>> \in Range(Declared("dependencies"))

\* C6, as claimed: every key of package.dependencies declared "*" is in the
\* package list of the stage 3 `npm install --save` invocation.
C6_WildcardInSaveInstall ==
    \A i \in DOMAIN log :
       IsAt(i, "spawn", "dependency-install")
       => Range(WildcardKeys(Declared("dependencies")))
             \subseteq Range(PackagesOf(log[i].args))

\* C6, amended: every key of package.dependencies declared "*" is in the
\* package list of the last install invocation, `npm install --save-dev`;
\* the `npm install --save` invocation gets the base dependency list as it is.
C6_WildcardInSaveDevInstall ==
    \A i \in DOMAIN log :
       /\ IsAt(i, "spawn", "devDependency-install")
          => /\ log[i].args[3] = "--save-dev"
             /\ Range(WildcardKeys(Declared("dependencies")))
                   \subseteq Range(PackagesOf(log[i].args))
       /\ IsAt(i, "spawn", "dependency-install")
          => /\ log[i].args[3] = "--save"
             /\ PackagesOf(log[i].args) = BaseDependencies

\* the last install is spawned for a descriptor with "left-pad": "*"
C6_Witness ==
    /\ \E i \in DOMAIN log : IsAt(i, "spawn", "devDependency-install")
    /\ <<"left-pad", Wildcard>> \in Range(Declared("dependencies"))

\* C7: stage 2 writes no wildcard entry into the manifest. A key declared "*"
\* under package.dependencies is not put into dependencies, one declared "*"
\* under package.devDependencies not into devDependencies, and no entry of the
\* persisted manifest has the value "*".
C7_NoWildcardInManifest ==
    Stage2Persisted
    => /\ \A f \in {"dependencies", "devDependencies"} :
             /\ Range(WildcardKeys(Declared(f))) \cap DOMAIN OnDisk(f) = {}
             /\ \A k \in DOMAIN OnDisk(f) : OnDisk(f)[k] # Wildcard

\* stage 2 has persisted a descriptor with a wildcard in both mappings
C7_Witness ==
    /\ Stage2Persisted
    /\ WildcardKeys(Declared("dependencies")) # <<>>
    /\ WildcardKeys(Declared("devDependencies")) # <<>>

\* C8: the keys of package.dependencies declared "*" are appended to the
\* devDependencies array behind the base entries (followed by those of
\* package.devDependencies), and the devDependency install is spawned with
\* that array.
C8_WildcardAppendedToDevList ==
    /\ NumWrites("package.json") = 2
       => devDependencies = BaseDevDependencies
                               \o WildcardKeys(Declared("dependencies"))
                               \o WildcardKeys(Declared("devDependencies"))
    /\ (child # <<>> /\ child[1].site = "devDependency-install")
       => /\ PackagesOf(child[1].args) = devDependencies
          /\ \A k \in Range(WildcardKeys(Declared("dependencies"))) :
                \E n \in (Len(BaseDevDependencies) + 1)..Len(child[1].args) - 5 :
                   PackagesOf(child[1].args)[n] = k

\* the devDependency install runs for a descriptor with two wildcard
\* dependencies
C8_Witness ==
    /\ child # <<>>
    /\ child[1].site = "devDependency-install"
    /\ Len(WildcardKeys(Declared("dependencies"))) = 2

\* C9: the manifest stage 2 persists has exactly the pinned entries of
\* package.dependencies as dependencies and exactly those of
\* package.devDependencies as devDependencies: nothing of the manifest loaded
\* from disk survives, the template package saved by stage 1 included.
C9_ResetThenMerge ==
    Stage2Persisted
    => /\ packageJsonFile[1].dependencies
             = << PinnedEntries(Declared("dependencies")) >>
       /\ packageJsonFile[1].devDependencies
             = << PinnedEntries(Declared("devDependencies")) >>

\* stage 2 has persisted a descriptor that pins an entry in each mapping and
\* does not name the template package, which stage 1 had saved
C9_Witness ==
    /\ Stage2Persisted
    /\ DOMAIN PinnedEntries(Declared("dependencies")) = {"left-pad"}
    /\ DOMAIN PinnedEntries(Declared("devDependencies")) = {"@next2d/framework"}
    /\ template \notin DOMAIN OnDisk("devDependencies")

\* the packages stage 3 installs by name
InstalledByName == Range(dependencies) \cup Range(devDependencies)

\* the keys of both mappings of the manifest on disk
ManifestKeys == DOMAIN OnDisk("dependencies") \cup DOMAIN OnDisk("devDependencies")

\* the keys the descriptor declares, with any value
DeclaredKeys ==
    {e[1] : e \in Range(Declared("dependencies")) \cup Range(Declared("devDependencies"))}

\* C10, as claimed: after a successful run the manifest's mappings hold
\* exactly the pinned template entries and the base sets (looked at for the
\* descriptors that do not name the template package itself).
C10_ExactlyPinnedPlusBase ==
    (SuccessPrinted /\ template \notin DeclaredKeys)
    => ManifestKeys = DOMAIN PinnedEntries(Declared("dependencies"))
                      \cup DOMAIN PinnedEntries(Declared("devDependencies"))
                      \cup Range(BaseDependencies) \cup Range(BaseDevDependencies)

\* C10, amended: after a successful run the manifest's mappings hold exactly
\* the pinned template entries, the wildcard template keys (saved by the
\* stage 3 install by name) and the base sets, up to the template package's
\* own entry; a pinned entry that stage 3 does not install by name still has
\* its declared value. When the template folder held a package.json of its
\* own, that file replaced the merged manifest, and the mappings hold what
\* stage 3 installed by name and nothing of the pinned entries.
C10_FinalManifest ==
    SuccessPrinted
    => /\ "package.json" \notin copiedFiles
          => /\ ManifestKeys \cup {template}
                   = DOMAIN PinnedEntries(Declared("dependencies"))
                     \cup DOMAIN PinnedEntries(Declared("devDependencies"))
                     \cup Range(WildcardKeys(Declared("dependencies")))
                     \cup Range(WildcardKeys(Declared("devDependencies")))
                     \cup Range(BaseDependencies) \cup Range(BaseDevDependencies)
                     \cup {template}
             /\ \A f \in {"dependencies", "devDependencies"} :
                   \A k \in DOMAIN PinnedEntries(Declared(f))
                             \ (InstalledByName \cup {template}) :
                      /\ k \in DOMAIN OnDisk(f)
                      /\ OnDisk(f)[k] = PinnedEntries(Declared(f))[k]
       /\ "package.json" \in copiedFiles
          => /\ ManifestKeys = InstalledByName
             /\ packageJsonFile[1].name = TemplateManifest.name

\* a successful run for a descriptor that pins left-pad and declares the
\* base package with another version
C10_Witness ==
    /\ SuccessPrinted
    /\ Declared("dependencies") = << <<"left-pad", "1.0.0">>,
                                    <<"@next2d/framework", "1.0.0">> >>

\* ------------------------------------------------- the empty descriptor
\* template.json declares no entry at all: the file, its package object or
\* both mappings are missing or empty
EmptyDescriptor ==
    Declared("dependencies") = <<>> /\ Declared("devDependencies") = <<>>

\* this step is the stage 2 write of the manifest
Stage2Write == NumWrites("package.json") = 1 /\ NumWrites("package.json")' = 2

MissingLevel ==
    /\ nodeModules # <<>>
    /\ \/ nodeModules[1].templateJson = <<>>
       \/ nodeModules[1].templateJson[1].package = <<>>
       \/ nodeModules[1].templateJson[1].package[1].dependencies = <<>>
       \/ nodeModules[1].templateJson[1].package[1].devDependencies = <<>>

\* position i of the history is the payload step of stage 2: the copy of the
\* template folder, or the message that it could not be located
PayloadStep(i) ==
    \/ IsAt(i, "write", "template")
    \/ IsAt(i, "print", "Could not locate supplied template")

\* C12: an absent descriptor is never an error. When template.json, its
\* package object or a mapping of the package object is missing and the
\* template install closed with status 0, the close handler goes on without
\* ending the process: it persists the manifest and reaches the payload step,
\* a missing level counts as an empty mapping in the manifest, and the install
\* lists hold the base lists and the wildcard keys of the levels that are
\* there, nothing else.
C12_AbsentDescriptorIsNoError ==
    \A i \in DOMAIN log :
       (IsAt(i, "close", "template-install") /\ log[i].code = 0 /\ MissingLevel)
       => /\ Len(log) >= i + 3
          /\ IsAt(i + 1, "print", "Installing template")
          /\ IsAt(i + 2, "write", "package.json")
          /\ PayloadStep(i + 3)
          /\ dependencies = BaseDependencies
          /\ devDependencies = BaseDevDependencies
                               \o WildcardKeys(Declared("dependencies"))
                               \o WildcardKeys(Declared("devDependencies"))
          /\ Stage2Persisted
             => \A f \in {"dependencies", "devDependencies"} :
                   /\ packageJsonFile[1][f] # <<>>
                   /\ OnDisk(f) = PinnedEntries(Declared(f))

\* the template install closed with status 0 for a package without a
\* template.json, and stage 2 went on to copy the payload
C12_Witness ==
    /\ nodeModules # <<>>
    /\ nodeModules[1].templateJson = <<>>
    /\ \E i \in DOMAIN log : IsAt(i, "write", "template")
    /\ NumWrites("package.json") = 2

\* ------------------------------------------------- the missing payload
\* stage 1 succeeded and the installed package has no template folder
PayloadMissing ==
    /\ \E i \in DOMAIN log : IsAt(i, "close", "template-install") /\ log[i].code = 0
    /\ nodeModules # <<>>
    /\ ~nodeModules[1].templateDir

\* C13: a missing payload is a soft abort. When stage 1 succeeded and the
\* package has no template folder, an error naming the expected path is
\* printed, the template uninstall and the stage 3 installs are never spawned,
\* the success summary is never printed, and the process does not terminate
\* with a non-zero status.
C13_MissingPayloadSoftAbort ==
    PayloadMissing
    => /\ \E i \in DOMAIN log :
             /\ IsAt(i, "print", "Could not locate supplied template")
             /\ log[i].args = <<"node_modules", template, "template">>
       /\ \A i \in DOMAIN log :
             /\ ~IsAt(i, "spawn", "template-uninstall")
             /\ ~Stage3Event(i)
             /\ log[i].kind = "exit" => log[i].code = 0
       /\ ~SuccessPrinted
       /\ child = <<>>
       /\ exitStatus = 0

\* the close handler of the template install has reported the missing
\* template folder and returned; the process is still alive, with no child
C13_Witness ==
    /\ PayloadMissing
    /\ pc = "eventLoop"
    /\ ~exited
    /\ \E i \in DOMAIN log : IsAt(i, "print", "Could not locate supplied template")

\* C14: a missing payload leaves a partial scaffold. When the run has ended
\* on the missing-payload path, the project directory, the .gitignore and the
\* manifest written before (and by) the pipeline are still there, and no file
\* of a template has been copied.
C14_PartialScaffoldRemains ==
    PayloadMissing
    => /\ projectDir
       /\ gitignoreFile # <<>>
       /\ packageJsonFile # <<>>
       /\ packageJsonFile[1].name = Basename(root)
       /\ copiedFiles = {}
       /\ \A i \in DOMAIN log : ~IsAt(i, "write", "template")

\* a run on the missing-payload path has ended
C14_Witness ==
    /\ PayloadMissing
    /\ pc = "exited"
    /\ gitignoreFile # <<>>
    /\ copiedFiles = {}

\* ------------------------------------------------------- rejected names
\* the application name is one the validator rejects or a reserved one, and
\* checkAppName has run
NameRejected ==
    /\ root # <<>>
    /\ Basename(root) \in {"My App", "next2d", "next2d-player", "next2d-framework"}
    /\ pc # "checkAppName"

\* C15: an invalid or reserved name ends the run before anything is done.
\* When the name is rejected by the validator or is next2d, next2d-player or
\* next2d-framework, the process prints an error and terminates with a
\* non-zero status; no directory has been created, no manifest and no
\* .gitignore written, and no external process spawned.
C15_RejectedNameExitsFirst ==
    NameRejected
    => /\ exited
       /\ exitStatus # 0
       /\ Len(log) = 2
       /\ log[1].kind = "print"
       /\ log[1].args = << Basename(root) >>
       /\ log[2] = EvExit(exitStatus)
       /\ ~projectDir
       /\ packageJsonFile = <<>>
       /\ gitignoreFile = <<>>
       /\ child = <<>>
       /\ nodeModules = <<>>

\* the run for the reserved name next2d-framework has ended
C15_Witness ==
    /\ projectName = "next2d-framework"
    /\ exited
    /\ \E i \in DOMAIN log : IsAt(i, "print", "dependency with the same name")

\* ------------------------------------------- the working directory check
\* the listing was obtained as text, has a line starting with "; cwd = ", and
\* the rest of the first such line is not the directory dir
FirstCwdLineDiffers(output, dir) ==
    /\ output # <<>>
    /\ \E i \in DOMAIN output[1] :
          /\ output[1][i][1]
          /\ \A j \in 1..(i - 1) : ~output[1][j][1]
          /\ output[1][i][2] # dir

\* the error of checkThatNpmCanReadCwd has been printed
CwdErrorPrinted ==
    \E i \in DOMAIN log :
       IsAt(i, "print", "Could not start an npm process in the right directory")

\* C16: checkThatNpmCanReadCwd returns false exactly when the configuration
\* listing was obtained as a string, contains a line starting with "; cwd = "
\* and the text after the prefix on the first such line differs from the
\* process's working directory; in every other case (the spawn threw, no such
\* line, equal path) it returns true. It prints its error exactly when it
\* returns false.
C16_CwdCheckResult ==
    cwdCheck # <<>>
    => /\ ~cwdCheck[1].result <=> FirstCwdLineDiffers(cwdCheck[1].childOutput, root)
       /\ ~cwdCheck[1].result <=> CwdErrorPrinted

\* the check has returned false for a listing whose first cwd line names
\* another directory and whose second one names the working directory
C16_Witness ==
    /\ cwdCheck # <<>>
    /\ ~cwdCheck[1].result
    /\ cwdCheck[1].childOutput = << << <<TRUE, <<"elsewhere">>>>, <<TRUE, root>> >> >>

\* C17: a failed working directory check is fatal before anything is
\* installed. When checkThatNpmCanReadCwd has returned false, createApp
\* terminates the process with a non-zero status, and no npm install or
\* uninstall is spawned in that run.
C17_CwdMismatchIsFatal ==
    CwdErrorPrinted
    => /\ pc = "cwdChecked" \/ (exited /\ exitStatus # 0)
       /\ pc = "cwdChecked" => ~cwdCheck[1].result
       /\ \A i \in DOMAIN log : log[i].kind # "spawn"
       /\ child = <<>>
       /\ nodeModules = <<>>
       /\ gitignoreFile = <<>>

\* the run has ended with status 1 after the check returned false
C17_Witness ==
    /\ CwdErrorPrinted
    /\ exited
    /\ exitStatus = 1
    /\ log[Len(log)] = EvExit(1)

\* ------------------------------------------------------ the version check
\* this step is createApp's use of the record checkNpmVersion returned
VersionWarningStep == pc = "npmVersionChecked" /\ pc' # "npmVersionChecked"

\* the warning about the npm version in use
VersionWarning == EvPrint("You are using npm", <<npmInfo[1].npmVersion>>)

\* C18, as claimed: whenever checkNpmVersion reports hasMinNpm = false the
\* warning is printed.
C18_WarningWheneverNotMin ==
    [][(VersionWarningStep /\ ~npmInfo[1].hasMinNpm)
       => log' = Append(log, VersionWarning)]_vars

\* C18, amended: the version check is advisory only. The warning is printed
\* exactly when hasMinNpm is false and the reported version string is not
\* empty; whatever the record holds, the step changes nothing but the
\* history, the run goes on to write .gitignore, and the record is not kept,
\* so the later steps cannot depend on it.
C18_VersionCheckIsAdvisory ==
    [][VersionWarningStep
       => /\ IF ~npmInfo[1].hasMinNpm /\ npmInfo[1].npmVersion # ""
             THEN log' = Append(log, VersionWarning)
             ELSE log' = log
          /\ pc' = "writeGitignore"
          /\ npmInfo' = <<>>
          /\ ~exited'
          /\ UNCHANGED << projectName, template, root, projectDir,
                          packageJsonFile, gitignoreFile, copiedFiles,
                          nodeModules, cwdCheck, dependencies,
                          devDependencies, child, promise, exitStatus >>]_vars

\* the warning was printed for a version query that threw, and the run has
\* written .gitignore and spawned the template install
C18_Witness ==
    /\ \E i \in DOMAIN log :
          IsAt(i, "print", "You are using npm") /\ log[i].args = <<"0.0.0">>
    /\ gitignoreFile # <<>>
    /\ \E i \in DOMAIN log : IsAt(i, "spawn", "template-install")

\* ------------------------------------------------------ the success summary
\* the call sites of the four external invocations
Sites ==
    {"template-install", "template-uninstall", "dependency-install",
     "devDependency-install"}

\* every one of the four invocations has closed with status 0
AllClosedOk ==
    \A site \in Sites :
       \E i \in DOMAIN log : IsAt(i, "close", site) /\ log[i].code = 0

\* C19: the success summary is printed if and only if all four external
\* invocations closed with exit status 0; it is printed at most once, after
\* the last invocation has closed, and never in a run that terminates with a
\* non-zero status.
C19_SuccessIffAllClosedOk ==
    /\ SuccessPrinted <=> AllClosedOk
    /\ Cardinality({i \in DOMAIN log : IsAt(i, "print", "Success! Created")}) <= 1
    /\ \A i \in DOMAIN log :
          IsAt(i, "print", "Success! Created")
          => /\ \A j \in DOMAIN log : log[j].kind \in {"spawn", "close"} => j < i
             /\ Cardinality({j \in 1..(i - 1) : log[j].kind = "close"}) = 4
    /\ SuccessPrinted
       => /\ exitStatus = 0
          /\ \A i \in DOMAIN log : log[i].kind = "exit" => log[i].code = 0
          /\ child = <<>>

\* a run has printed the summary and ended with status 0
C19_Witness ==
    /\ SuccessPrinted
    /\ AllClosedOk
    /\ exited
    /\ exitStatus = 0

\* -------------------------------------------------- the missing argument
\* commander.parse has returned without a captured argument: projectName
\* still has its initial value
NoArgumentCaptured ==
    /\ pc # "execute"
    /\ projectName = ""
    /\ \A i \in DOMAIN log : ~IsAt(i, "print", "error: missing required argument")

\* C20: when the parser has captured no project-directory argument
\* (projectName keeps its initial value), execute prints the usage guidance
\* and terminates with a non-zero status without calling createApp: no
\* directory is created and no file is written.
C20_NoArgumentPrintsUsage ==
    NoArgumentCaptured
    => /\ \E i \in DOMAIN log : IsAt(i, "print", "Please specify the project directory")
       /\ exited
       /\ exitStatus # 0
       /\ root = <<>>
       /\ ~projectDir
       /\ packageJsonFile = <<>>
       /\ gitignoreFile = <<>>

\* ------------------------------------------------- the template identifier
\* C21: the template identifier the pipeline uses is the --template value
\* when the option is given and "@next2d/framework-template" otherwise, and
\* within one run the template install and the template uninstall name the
\* same identifier: the package removed is the package that was added.
C21_SameTemplateIdentifier ==
    root # <<>>
    => /\ options # <<>>
       /\ template = IF options[1].template = Undefined
                     THEN "@next2d/framework-template"
                     ELSE options[1].template
       /\ nodeModules # <<>> => nodeModules[1].name = template
       /\ \A i \in DOMAIN log :
             /\ IsAt(i, "spawn", "template-install")
                => /\ log[i].args[1] = "install"
                   /\ PackagesOf(log[i].args) = << template >>
             /\ IsAt(i, "spawn", "template-uninstall")
                => /\ log[i].args[1] = "uninstall"
                   /\ PackagesOf(log[i].args) = << template >>
                   /\ \E j \in 1..(i - 1) :
                         /\ IsAt(j, "spawn", "template-install")
                         /\ PackagesOf(log[j].args) = PackagesOf(log[i].args)

\* the template uninstall has been spawned in a run started with --template
C21_Witness ==
    /\ options = << [template |-> "@next2d/framework-typescript-template"] >>
    /\ \E i \in DOMAIN log : IsAt(i, "spawn", "template-uninstall")

\* ---------------------------------------------------- the tool's own writes
\* the positions of the history where the tool wrote the file
WritesOf(what) == {i \in DOMAIN log : IsAt(i, "write", what)}

SpawnsOf(site) == {i \in DOMAIN log : IsAt(i, "spawn", site)}

\* C23: no external invocation is retried. In any run each of the four
\* invocations is spawned at most once, whatever exit statuses are returned,
\* and nothing is spawned at any other call site.
C23_SpawnedAtMostOnce ==
    /\ \A site \in Sites : Cardinality(SpawnsOf(site)) <= 1
    /\ \A i \in DOMAIN log : log[i].kind = "spawn" => log[i].what \in Sites

\* a run has ended after the dependency install closed with status 2: three
\* invocations were spawned, each once
C23_Witness ==
    /\ exited
    /\ \E i \in DOMAIN log : IsAt(i, "close", "dependency-install") /\ log[i].code = 2
    /\ Cardinality({i \in DOMAIN log : log[i].kind = "spawn"}) = 3

\* ------------------------------------------------------ one child at a time
\* the number of events of the kind among the first n of the history
NumBefore(kind, n) == Cardinality({i \in 1..n : log[i].kind = kind})

\* an external process is in flight after the first n events of the history:
\* spawned, its close not yet reported
InFlight(n) == NumBefore("spawn", n) > NumBefore("close", n)

\* C24: at every point of every run at most one external process is in
\* flight. An invocation is spawned only after the one spawned before it has
\* reported its close event, a close event is that of the invocation spawned
\* last, and the tool writes no file of the project root while an external
\* process is in flight.
C24_OneChildAtATime ==
    /\ \A i \in DOMAIN log :
          /\ log[i].kind = "spawn" => ~InFlight(i - 1)
          /\ log[i].kind = "write" => ~InFlight(i - 1)
          /\ log[i].kind = "close"
             => /\ InFlight(i - 1)
                /\ \E j \in 1..(i - 1) :
                      /\ log[j].kind = "spawn"
                      /\ log[j].what = log[i].what
                      /\ \A k \in (j + 1)..(i - 1) :
                            log[k].kind \notin {"spawn", "close"}
    /\ InFlight(Len(log)) <=> child # <<>>

\* the devDependency install is in flight, the three invocations before it
\* have closed
C24_Witness ==
    /\ child # <<>>
    /\ child[1].site = "devDependency-install"
    /\ child[1].code = <<>>
    /\ NumBefore("spawn", Len(log)) = 4
    /\ NumBefore("close", Len(log)) = 3

\* ---------------------------------------------------------- no rollback
\* the project directory and the files the tool writes into it
ProjectFiles == << projectDir, packageJsonFile, gitignoreFile, copiedFiles >>

\* this step ends the process with a non-zero status
FailingStep == ~exited /\ exited' /\ exitStatus' # 0

\* C25: nothing is rolled back on failure. The step that ends the process
\* with a non-zero status leaves the project directory and every file the
\* tool wrote as they are; after the soft abort on a missing payload no step
\* changes them; and no step of any run deletes the directory, the manifest,
\* .gitignore or a copied template file.
C25_NothingRolledBack ==
    [][/\ FailingStep => UNCHANGED ProjectFiles
       /\ PayloadMissing => UNCHANGED ProjectFiles
       /\ projectDir => projectDir'
       /\ packageJsonFile # <<>> => packageJsonFile' # <<>>
       /\ gitignoreFile # <<>> => gitignoreFile' # <<>>
       /\ copiedFiles \subseteq copiedFiles']_vars

\* a run has ended with status 1 after the dependency install failed; the
\* directory, both files and the copied payload are on disk
C25_Witness ==
    /\ exited
    /\ exitStatus = 1
    /\ \E i \in DOMAIN log : IsAt(i, "close", "dependency-install") /\ log[i].code # 0
    /\ projectDir
    /\ packageJsonFile # <<>>
    /\ gitignoreFile # <<>>
    /\ copiedFiles = PayloadFiles

\* ------------------------------------------- after the missing payload
\* C26, as claimed: on the missing-payload path the run prints the error and
\* the template uninstall and stage 3 still run (looked at when the run has
\* ended).
C26_UninstallAndStage3StillRun ==
    (PayloadMissing /\ exited)
    => /\ SpawnsOf("template-uninstall") # {}
       /\ SpawnsOf("dependency-install") # {}
       /\ SpawnsOf("devDependency-install") # {}

\* C26, amended: on the missing-payload path the error is the last thing the
\* pipeline does. The template install stays the only invocation spawned, the
\* first promise is never settled, so no .then callback runs, and the run
\* ends when nothing is left to wait for, with status 0.
C26_NothingRunsAfterMissingPayload ==
    PayloadMissing
    => /\ \A i \in DOMAIN log : log[i].kind = "spawn" => IsAt(i, "spawn", "template-install")
       /\ promise = <<"pending", "none">>
       /\ pc \in {"eventLoop", "exited"}
       /\ \E e \in DOMAIN log :
             /\ IsAt(e, "print", "Could not locate supplied template")
             /\ \A k \in (e + 1)..Len(log) : log[k] = Event("exit", "end", <<>>, 0)
       /\ exited => log[Len(log)] = Event("exit", "end", <<>>, 0)

\* a run on the missing-payload path has ended with the first promise still
\* pending
C26_Witness ==
    /\ PayloadMissing
    /\ exited
    /\ promise = <<"pending", "none">>
    /\ log[Len(log)] = Event("exit", "end", <<>>, 0)

\* ------------------------------------------------------- order of stage 3
\* the call sites of the spawns of the run, in order
SpawnOrder ==
    LET spawns == SelectSeq(log, LAMBDA e : e.kind = "spawn")
    IN  [i \in DOMAIN spawns |-> spawns[i].what]

\* C27: stage 3 is two invocations in a fixed order. The dependency install
\* (--save) is spawned first, the devDependency install (--save-dev) only
\* after the dependency install closed with status 0; a successful run
\* spawns template install, template uninstall, dependency install and
\* devDependency install, in this order.
C27_Stage3Order ==
    /\ \A i \in DOMAIN log :
          /\ IsAt(i, "spawn", "dependency-install")
             => /\ log[i].args[1] = "install"
                /\ log[i].args[3] = "--save"
                /\ \A j \in 1..i : ~IsAt(j, "spawn", "devDependency-install")
          /\ IsAt(i, "spawn", "devDependency-install")
             => /\ log[i].args[1] = "install"
                /\ log[i].args[3] = "--save-dev"
                /\ ClosedOkBefore("dependency-install", i)
    /\ SuccessPrinted
       => SpawnOrder = << "template-install", "template-uninstall",
                          "dependency-install", "devDependency-install" >>

\* the devDependency install has been spawned after the dependency install
\* closed with status 0
C27_Witness ==
    /\ SpawnOrder = << "template-install", "template-uninstall",
                       "dependency-install", "devDependency-install" >>
    /\ ~SuccessPrinted
    /\ child # <<>>

\* -------------------------------------------- only zero or non-zero counts
\* this step is a close handler running for a child that reported a
\* non-zero exit status
FailedCloseStep ==
    /\ child # <<>>
    /\ child[1].code # <<>>
    /\ child[1].code[1] # 0
    /\ child' = <<>>

\* what a close handler prints for a failed child, by call site
FailureOutput ==
    IF child[1].site = "devDependency-install"
    THEN << EvPrint("command", CommandLine(child[1].args)) >>
    ELSE <<>>

\* C28: the pipeline consumes only the zero / non-zero distinction of an exit
\* status. Whatever non-zero status a child reports, its close handler does
\* the same: the value appears in nothing the tool prints, writes or passes
\* on, the process ends with status 1, and every other part of the state is
\* left as it was; the only trace of the value is the close event itself.
C28_OnlyZeroOrNonZero ==
    [][FailedCloseStep
       => /\ log' = log \o << EvClose(child[1].site, child[1].args, child[1].code[1]) >>
                        \o FailureOutput \o << EvExit(1) >>
          /\ exited'
          /\ exitStatus' = 1
          /\ pc' = "exited"
          /\ promise' = IF child[1].site \in {"template-install", "template-uninstall"}
                        THEN <<"rejected", "none">>
                        ELSE IF child[1].site = "dependency-install"
                        THEN <<"resolved", "rejected">>
                        ELSE promise
          /\ UNCHANGED << projectName, options, template, root, projectDir,
                          packageJsonFile, gitignoreFile, copiedFiles,
                          nodeModules, cwdCheck, npmInfo, dependencies,
                          devDependencies >>]_vars

\* the template uninstall reported status 2 and the run has ended with
\* status 1
C28_Witness ==
    /\ exited
    /\ exitStatus = 1
    /\ \E i \in DOMAIN log : IsAt(i, "close", "template-uninstall") /\ log[i].code = 2

\* ------------------------------------------------------------ termination
\* the run is over: the summary is printed, the process has terminated with
\* a non-zero status, or the missing payload has been reported
Terminal ==
    \/ SuccessPrinted
    \/ exited /\ exitStatus # 0
    \/ PayloadMissing

\* a spawned process has not run to its end
Waiting == child # <<>> /\ child[1].code = <<>>

\* C29: if every spawned external process eventually reports its close
\* event, every run eventually reaches a terminal state; and while a spawned
\* process has not closed the pipeline takes no step of its own: the only
\* step is the process running to its end, there is no timeout and no
\* cancellation.
C29_TerminatesIfChildrenClose ==
    /\ <>Terminal
    /\ [][Waiting
          => /\ child' # <<>>
             /\ child'[1].code # <<>>
             /\ UNCHANGED << pc, projectName, options, template, root,
                             projectDir, gitignoreFile, copiedFiles, cwdCheck,
                             npmInfo, dependencies, devDependencies, promise,
                             exited, exitStatus, log >>]_vars

\* the process waits for the template uninstall, which has not closed
C29_Witness ==
    /\ Waiting
    /\ child[1].site = "template-uninstall"
    /\ ~Terminal

\* ------------------------------------- the manifest on the missing payload
\* C30: within stage 2 the merged manifest is persisted before the template
\* folder is looked for. On the missing-payload path the second write of the
\* manifest comes after the close of the template install and before the
\* message, the manifest on disk is the merged one (each mapping holds the
\* pinned entries of the descriptor and nothing else, so the entry stage 1
\* saved for the template package is not in it unless the descriptor pins the
\* package itself), and the template uninstall was never spawned.
C30_MergedManifestBeforePayloadCheck ==
    PayloadMissing
    => /\ Cardinality(WritesOf("package.json")) = 2
       /\ \E c, w, m \in DOMAIN log :
             /\ IsAt(c, "close", "template-install")
             /\ IsAt(w, "write", "package.json")
             /\ IsAt(m, "print", "Could not locate supplied template")
             /\ c < w
             /\ w < m
             /\ \A i \in WritesOf("package.json") : i <= w
       /\ packageJsonFile # <<>>
       /\ packageJsonFile[1].dependencies
             = << PinnedEntries(Declared("dependencies")) >>
       /\ packageJsonFile[1].devDependencies
             = << PinnedEntries(Declared("devDependencies")) >>
       /\ template \notin DeclaredKeys => template \notin ManifestKeys
       /\ SpawnsOf("template-uninstall") = {}
       /\ \A i \in DOMAIN log : ~IsAt(i, "close", "template-uninstall")

\* a run has ended on the missing-payload path with a descriptor that pins
\* one dependency and does not name the template package: the manifest holds
\* that entry, no longer the template, and one process was spawned
C30_Witness ==
    /\ PayloadMissing
    /\ pc = "exited"
    /\ DOMAIN OnDisk("dependencies") = {"left-pad"}
    /\ OnDisk("devDependencies") = EmptyMap
    /\ template \notin DeclaredKeys
    /\ Cardinality({i \in DOMAIN log : log[i].kind = "spawn"}) = 1

\* ------------------------------------- where the working directory check is
\* C33: the working directory check runs after the project directory was
\* created and the stub manifest written, and before .gitignore is written.
\* In a run that has terminated on a mismatch the directory and the stub
\* manifest (the application's name, no mapping yet) are on disk, both written
\* before the error was printed, .gitignore is not, nothing was written after
\* the error and no npm install was spawned; and in every run .gitignore is
\* written only after the stub manifest and never after that error.
C33_CwdCheckBetweenStubAndGitignore ==
    /\ (exited /\ CwdErrorPrinted)
       => /\ projectDir
          /\ packageJsonFile = << StubManifest(Basename(root)) >>
          /\ gitignoreFile = <<>>
          /\ copiedFiles = {}
          /\ \A e \in DOMAIN log :
                IsAt(e, "print", "Could not start an npm process in the right directory")
                => /\ \E d, p \in 1..(e - 1) :
                         /\ d < p
                         /\ IsAt(d, "write", "mkdir")
                         /\ IsAt(p, "write", "package.json")
                   /\ \A i \in (e + 1)..Len(log) : log[i].kind # "write"
          /\ \A i \in DOMAIN log : log[i].kind # "spawn"
    /\ \A g \in DOMAIN log :
          IsAt(g, "write", ".gitignore")
          => /\ \E p \in 1..(g - 1) : IsAt(p, "write", "package.json")
             /\ ~CwdErrorPrinted

\* a run for the name my-app has terminated on a mismatch
C33_Witness ==
    /\ CwdErrorPrinted
    /\ exited
    /\ root = <<"cwd", "my-app">>
    /\ projectDir
    /\ packageJsonFile # <<>>
    /\ gitignoreFile = <<>>

\* ------------------------------------------------ the payload copy wins
\* the manifest the tool wrote last, as recorded in the history
LastWritten ==
    LET w == CHOOSE i \in DOMAIN log :
                /\ IsAt(i, "write", "package.json")
                /\ \A j \in (i + 1)..Len(log) : ~IsAt(j, "write", "package.json")
    IN  log[w].args[1]

\* stage 2 has copied the template folder and no npm process has run to its
\* end since
PayloadCopied ==
    /\ child # <<>>
    /\ child[1].site = "template-uninstall"
    /\ child[1].code = <<>>

\* C31: the payload copy runs after the second manifest write and after the
\* .gitignore write, and a file of the template folder replaces the file of
\* the same path. Every copy follows both writes in the history; after
\* stage 2 copied a folder that holds a package.json, the manifest on disk is
\* that file and not the merged manifest, otherwise it is the merged
\* manifest; and from the copy on .gitignore is the folder's .gitignore when
\* it holds one and the generated ignore list otherwise.
C31_PayloadCopyOverwrites ==
    /\ \A c \in DOMAIN log :
          IsAt(c, "write", "template")
          => /\ \E g \in 1..(c - 1) : IsAt(g, "write", ".gitignore")
             /\ \E first, second \in 1..(c - 1) :
                   /\ first < second
                   /\ IsAt(first, "write", "package.json")
                   /\ IsAt(second, "write", "package.json")
             /\ copiedFiles = nodeModules[1].templateFiles
             /\ gitignoreFile = IF ".gitignore" \in copiedFiles
                                THEN << TemplateIgnoreList >>
                                ELSE << IgnoreList >>
    /\ PayloadCopied
       => /\ \E c \in DOMAIN log : IsAt(c, "write", "template")
          /\ packageJsonFile = IF "package.json" \in copiedFiles
                               THEN << TemplateManifest >>
                               ELSE << LastWritten >>
          /\ LastWritten # TemplateManifest

\* stage 2 has copied a folder that holds both files, for a descriptor that
\* pins left-pad: the manifest on disk is the folder's, without that entry
C31_Witness ==
    /\ PayloadCopied
    /\ copiedFiles = PayloadFiles \cup {"package.json", ".gitignore"}
    /\ DOMAIN PinnedEntries(Declared("dependencies")) = {"left-pad"}
    /\ "left-pad" \in DOMAIN LastWritten.dependencies[1]
    /\ packageJsonFile[1].name = "template-app"
    /\ OnDisk("dependencies") = EmptyMap
    /\ gitignoreFile = << TemplateIgnoreList >>

\* ------------------------------------------------- the frame of the merge
\* the fields of the manifest other than the two mappings
OtherFields == {"name", "description", "version", "private", "type", "scripts"}

\* C32: the stage 2 merge changes only the two mappings of the manifest. In
\* the step that writes the manifest a second time, the manifest written has
\* the fields of the one that was on disk, and name, description, version,
\* private, type and scripts have the values they had on disk, which are
\* those of the stub createApp wrote.
C32_MergeChangesOnlyMappings ==
    [][Stage2Write
       => /\ DOMAIN LastWritten' = DOMAIN packageJsonFile[1]
          /\ DOMAIN LastWritten' = OtherFields \cup {"dependencies", "devDependencies"}
          /\ \A f \in OtherFields :
                /\ LastWritten'[f] = packageJsonFile[1][f]
                /\ LastWritten'[f] = StubManifest(Basename(root))[f]]_vars

\* stage 2 has written the manifest for the application my-app: the mappings
\* are those of a descriptor that pins left-pad, no longer the template
\* package stage 1 had saved, and the scripts are the stub's
C32_Witness ==
    /\ NumWrites("package.json") = 2
    /\ LastWritten.name = "my-app"
    /\ LastWritten.scripts = "scripts"
    /\ DOMAIN LastWritten.dependencies[1] = {"left-pad"}
    /\ LastWritten.devDependencies = << EmptyMap >>

====
